---- MODULE Spec2Model ----
(***************************************************************************)
(* Ambulance Priority Corridor Engine of the medico backend (backend/amb): *)
(* the per-intersection signal state machine (core/signal_fsm.py), the     *)
(* conflict resolver (services/conflict_resolver.py), the route-ahead      *)
(* selector (services/route_service.py), the corridor planner              *)
(* (services/corridor_service.py) and the handlers that drive them.        *)
(*                                                                         *)
(* Distances are in units of 0.1 km on a line (the code's flat-earth       *)
(* distance of two points), times are in seconds, strings that the code    *)
(* normalises are sequences of one-character strings.                      *)
(***************************************************************************)
EXTENDS Integers, Sequences, FiniteSets, TLC

\* ------------------------------------------------------------------------
\* Bounds of the model
\* ------------------------------------------------------------------------
MaxCalls == 1
MaxSteps == 2
MaxResolves == 2
StartTime == 1
TickSeconds == 60
MaxTime == 62

\* ------------------------------------------------------------------------
\* Python values
\* ------------------------------------------------------------------------
None == "None"
NoneTime == -1
PyTrue == "True"
PyFalse == "False"

\* F applied to the value of v: v is evaluated once, however often F uses it
Bind(v, F(_)) == CHOOSE r \in {F(x) : x \in {v}} : TRUE

\* ------------------------------------------------------------------------
\* core/signal_fsm.py
\* ------------------------------------------------------------------------
NORMAL == "normal"
PREPARE_PRIORITY == "prepare_priority"
GREEN_FOR_AMBULANCE == "green_for_ambulance"
RESET == "reset"
SignalState == {NORMAL, PREPARE_PRIORITY, GREEN_FOR_AMBULANCE, RESET}

SevLOW == <<"L", "O", "W">>
SevMODERATE == <<"M", "O", "D", "E", "R", "A", "T", "E">>
SevHIGH == <<"H", "I", "G", "H">>
SevCRITICAL == <<"C", "R", "I", "T", "I", "C", "A", "L">>
VALID_SEVERITIES == {SevLOW, SevMODERATE, SevHIGH, SevCRITICAL}

max_green_time == 60
HISTORY_LIMIT == 50
PREPARE_KM == 5
GREEN_KM == 2
PASSED_KM == 10

LowerChars == <<"a", "b", "c", "d", "e", "f", "g", "h", "i", "j", "k", "l", "m",
                "n", "o", "p", "q", "r", "s", "t", "u", "v", "w", "x", "y", "z">>
UpperChars == <<"A", "B", "C", "D", "E", "F", "G", "H", "I", "J", "K", "L", "M",
                "N", "O", "P", "Q", "R", "S", "T", "U", "V", "W", "X", "Y", "Z">>
Whitespace == {" ", "\t", "\n", "\r"}

\* str.upper(): every lower-case letter becomes its upper-case letter
UpperMap ==
    [c \in {LowerChars[i] : i \in 1..26} |->
        UpperChars[CHOOSE i \in 1..26 : LowerChars[i] = c]]

UpperChar(c) == IF c \in DOMAIN UpperMap THEN UpperMap[c] ELSE c

StrUpper(s) == [i \in 1..Len(s) |-> UpperChar(s[i])]

\* str.strip(): leading and trailing whitespace removed
RECURSIVE LStrip(_)
LStrip(s) ==
    IF s # <<>> /\ Head(s) \in Whitespace THEN LStrip(Tail(s)) ELSE s

RECURSIVE RStrip(_)
RStrip(s) ==
    IF s # <<>> /\ s[Len(s)] \in Whitespace
    THEN RStrip(SubSeq(s, 1, Len(s) - 1))
    ELSE s

StrStrip(s) == RStrip(LStrip(s))

\* TrafficSignalFSM.normalize_severity: the normalised string; the ValueError
\* is SeverityRaises
normalize_severity(severity) == StrStrip(StrUpper(severity))

\* a validation that lets every string through
SeverityNeverRaises(severity) == FALSE

SeverityRaises(severity) == normalize_severity(severity) \notin VALID_SEVERITIES

\* TrafficSignalFSM.__init__
NewFSM ==
    [current_state |-> NORMAL,
     current_owner |-> None,
     history |-> <<>>,
     green_start_time |-> NoneTime]

\* Python truthiness of an Optional[float]
TruthyTime(t) == t # NoneTime /\ t # 0

\* a reset that forgets to release the owner
FsmResetKeepsOwner(fsm) ==
    [fsm EXCEPT !.current_state = NORMAL, !.green_start_time = NoneTime]

\* TrafficSignalFSM.reset
FsmReset(fsm) ==
    [fsm EXCEPT !.current_state = NORMAL,
                !.current_owner = None,
                !.green_start_time = NoneTime]

Reason(reason, severity, distance, conflict_winner) ==
    [reason |-> reason, severity |-> severity, distance |-> distance,
     conflict_winner |-> conflict_winner]

\* a transition that ignores the arbitration outcome
LostArbitrationIgnored(conflict_winner) == FALSE

\* conflict_winner is False
LostArbitration(conflict_winner) == conflict_winner = PyFalse

\* a trigger that includes the 0.5 km boundary
PriorityTriggerInclusive(distance_km, sev) ==
    distance_km <= PREPARE_KM /\ sev \in {SevHIGH, SevCRITICAL}

\* distance_km < 0.5 and severity in {"HIGH", "CRITICAL"}
PriorityTrigger(distance_km, sev) ==
    distance_km < PREPARE_KM /\ sev \in {SevHIGH, SevCRITICAL}

\* a timeout test that already fires at exactly max_green_time
GreenTimedOutInclusive(fsm, t) ==
    TruthyTime(fsm.green_start_time) /\ t - fsm.green_start_time >= max_green_time

\* self.green_start_time and (time.time() - self.green_start_time >
\* self.max_green_time)
GreenTimedOut(fsm, t) ==
    TruthyTime(fsm.green_start_time) /\ t - fsm.green_start_time > max_green_time

\* max(0, x) of the two read projections
AtLeastZero(x) == IF x < 0 THEN 0 ELSE x

\* TrafficSignalFSM.green_time_remaining, the property the dashboard reads
green_time_remaining(fsm, t) ==
    IF TruthyTime(fsm.green_start_time) /\ fsm.current_state = GREEN_FOR_AMBULANCE
    THEN AtLeastZero(max_green_time - (t - fsm.green_start_time))
    ELSE 0

\* api/signal.py get_signal_state, its "green_time_remaining" field:
\* max(0, max_green_time - (time.time() - green_start_time)
\*        if green_start_time else 0)
get_signal_state(fsm, t) ==
    AtLeastZero(IF TruthyTime(fsm.green_start_time)
                THEN max_green_time - (t - fsm.green_start_time)
                ELSE 0)

\* a green grant that includes the 0.2 km boundary
GrantsGreenInclusive(distance_km) == distance_km <= GREEN_KM

\* distance_km < 0.2 in the PREPARE_PRIORITY branch
GrantsGreen(distance_km) == distance_km < GREEN_KM

\* a completion of the reset cycle that leaves green_start_time behind
ResetCompleteKeepsGreenStart(fsm) ==
    [fsm EXCEPT !.current_state = NORMAL, !.current_owner = None]

\* the RESET branch of transition: back to NORMAL, owner and green_start_time
\* cleared
ResetComplete(fsm) ==
    [fsm EXCEPT !.current_state = NORMAL,
                !.current_owner = None,
                !.green_start_time = NoneTime]

\* the state-dependent branch of TrafficSignalFSM.transition: the FSM fields
\* and the reason text, before the history entry is appended
TransitionBranch(fsm, ambulance_id, distance_km, sev, conflict_winner, t) ==
    CASE fsm.current_state = NORMAL ->
           IF LostArbitration(conflict_winner)
           THEN [fsm |-> fsm,
                 reason |-> "Suppressed by conflict resolution (lost arbitration)"]
           ELSE IF PriorityTrigger(distance_km, sev)
           THEN [fsm |-> [fsm EXCEPT !.current_state = PREPARE_PRIORITY,
                                     !.current_owner = ambulance_id],
                 reason |-> "Ambulance approaching within 500m with HIGH/CRITICAL severity"]
           ELSE [fsm |-> fsm,
                 reason |-> "No priority trigger (distance >= 0.5km or severity LOW/MODERATE)"]
      [] fsm.current_state = PREPARE_PRIORITY ->
           IF GrantsGreen(distance_km)
           THEN [fsm |-> [fsm EXCEPT !.current_state = GREEN_FOR_AMBULANCE,
                                     !.current_owner = ambulance_id,
                                     !.green_start_time = t],
                 reason |-> "Ambulance close (<200m); grant green"]
           ELSE IF distance_km > PASSED_KM
           THEN [fsm |-> [fsm EXCEPT !.current_state = RESET,
                                     !.current_owner = None],
                 reason |-> "Ambulance passed (>1km); reset"]
           ELSE [fsm |-> fsm, reason |-> ""]
      [] fsm.current_state = GREEN_FOR_AMBULANCE ->
           IF distance_km > PASSED_KM \/ GreenTimedOut(fsm, t)
           THEN [fsm |-> [fsm EXCEPT !.current_state = RESET,
                                     !.current_owner = None],
                 reason |-> "Ambulance cleared (>1km) or max green time exceeded; reset"]
           ELSE [fsm |-> fsm, reason |-> ""]
      [] fsm.current_state = RESET ->
           [fsm |-> ResetComplete(fsm), reason |-> "Reset cycle complete"]

\* an eviction that pops the newest entry instead of the oldest
HistoryAppendPopsNewest(history, entry) ==
    LET h == Append(history, entry)
    IN  IF Len(h) > HISTORY_LIMIT THEN SubSeq(h, 1, Len(h) - 1) ELSE h

\* history.append(...) followed by the pop(0) that keeps at most 50 entries
HistoryAppend(history, entry) ==
    LET h == Append(history, entry)
    IN  IF Len(h) > HISTORY_LIMIT THEN Tail(h) ELSE h

\* TrafficSignalFSM.transition for a severity that normalises (the call that
\* raises changes nothing and is handled by the callers)
Transition(fsm, ambulance_id, distance_km, severity, conflict_winner, t) ==
    LET sev == normalize_severity(severity)
        b == TransitionBranch(fsm, ambulance_id, distance_km, sev, conflict_winner, t)
        entry == [state |-> b.fsm.current_state,
                  reason |-> Reason(b.reason, sev, distance_km, conflict_winner)]
    IN  [b.fsm EXCEPT !.history = HistoryAppend(b.fsm.history, entry)]

\* ------------------------------------------------------------------------
\* Identifiers and inputs
\* ------------------------------------------------------------------------
Vehicles == {"AMB-1", "AMB-2"}
DefaultSignal == "SIGNAL-001"

\* severity strings a caller may pass (valid, un-normalised, invalid)
SevRaw == <<" ", "c", "r", "i", "t", "i", "c", "a", "l", " ">>
SevUnknown == <<"U", "R", "G", "E", "N", "T">>
SeverityInputs == VALID_SEVERITIES \cup {SevRaw, SevUnknown}

\* distance_km arguments of a direct transition call, in 0.1 km
DistanceInputs == {1, 2, 5, 10, 11}

\* conflict_winner: Optional[bool]
ConflictWinnerInputs == {None, PyTrue, PyFalse}

\* severity strings of the corridor endpoint, of a trip (validated by the
\* Severity enum of api/trips.py) and of the demo-signal endpoint
CorridorSeverities == {SevHIGH, SevCRITICAL, SevUnknown}
TripSeverities == {SevHIGH}
DemoSeverities == {SevHIGH}

\* services/signal_service.py get_or_init_signal: the store with the signal
\* created on first reference
get_or_init_signal(store, signal_id) ==
    IF signal_id \in DOMAIN store THEN store ELSE store @@ (signal_id :> NewFSM)

\* ------------------------------------------------------------------------
\* Static data loaded at startup (core/startup.py, route_service.py)
\* ------------------------------------------------------------------------
\* the signals of HOSP-001's route stand 0.7 km apart, those of HOSP-002's
\* route 1 km apart on another stretch of road
SIGNAL_POSITIONS ==
    ("SIGNAL-001" :> 0) @@ ("SIGNAL-002" :> 7) @@ ("SIGNAL-003" :> 14)
      @@ ("SIGNAL-101" :> 100) @@ ("SIGNAL-102" :> 110) @@ ("SIGNAL-103" :> 120)
      @@ ("SIGNAL-104" :> 130) @@ ("SIGNAL-105" :> 140)

\* HOSP-003 has no route; the route of HOSP-004 names signals that were
\* never loaded
ROUTES ==
    ("HOSP-001" :> <<"SIGNAL-001", "SIGNAL-002", "SIGNAL-003">>)
      @@ ("HOSP-002" :> <<"SIGNAL-101", "SIGNAL-102", "SIGNAL-103", "SIGNAL-104",
                          "SIGNAL-105">>)
      @@ ("HOSP-004" :> <<"SIGNAL-901", "SIGNAL-902">>)

\* AMB-6 is a vehicle id the registry does not know
AMBULANCE_REGISTRY ==
    ("AMB-1" :> "HOSP-001") @@ ("AMB-2" :> "HOSP-001") @@ ("AMB-3" :> "HOSP-002")
      @@ ("AMB-4" :> "HOSP-003") @@ ("AMB-5" :> "HOSP-004")

HOSPITAL_REGISTRY == ("HOSP-001" :> 20)

\* the fixed coordinates of the single demo signal of update_signal_for_ambulance
DemoSignalPosition == 0

\* positions a vehicle reports, in 0.1 km along the road: 0.1 km and 0.3 km
\* after SIGNAL-001, 0.1 km before SIGNAL-003
VehiclePositions == {1, 3, 13}

MAX_CORRIDOR_SIGNALS == 3
DECISION_LOG_LIMIT == 1000
PASSED_CLOSEST_KM == 3
FALLBACK_KM == 20
BEHIND_KM == 15
ETA_SENTINEL == 999
SPEED_CAP_KMH == 80

\* ((gps.lat - lat)**2 + (gps.lng - lng)**2)**0.5 * 111, for points of a line
FlatDistance(a, b) == IF a >= b THEN a - b ELSE b - a

PrioritySignalStates == {GREEN_FOR_AMBULANCE, PREPARE_PRIORITY}

\* ------------------------------------------------------------------------
\* GPS_STORE: a dict in insertion order, a sequence of [id, pos, speed_kmh,
\* updated_at]
\* ------------------------------------------------------------------------
GpsKeys(gps) == [i \in 1..Len(gps) |-> gps[i].id]

InGps(gps, ambulance_id) == \E i \in 1..Len(gps) : gps[i].id = ambulance_id

GpsOf(gps, ambulance_id) ==
    gps[CHOOSE i \in 1..Len(gps) : gps[i].id = ambulance_id]

\* GPS_STORE[ambulance_id] = state: an existing key keeps its place
GpsPut(gps, state) ==
    IF InGps(gps, state.id)
    THEN [i \in 1..Len(gps) |-> IF gps[i].id = state.id THEN state ELSE gps[i]]
    ELSE Append(gps, state)

\* list.sort(key=distance) of Python: stable insertion by the dist field
RECURSIVE InsertByDist(_, _)
InsertByDist(sorted, x) ==
    IF sorted = <<>> THEN <<x>>
    ELSE IF x.dist < Head(sorted).dist THEN <<x>> \o sorted
    ELSE <<Head(sorted)>> \o InsertByDist(Tail(sorted), x)

RECURSIVE SortByDist(_)
SortByDist(xs) ==
    IF xs = <<>> THEN <<>>
    ELSE Bind(SortByDist(SubSeq(xs, 1, Len(xs) - 1)),
              LAMBDA sorted : InsertByDist(sorted, xs[Len(xs)]))

\* the (index, signal, distance) triples of the route's signals that have a
\* known position, in route order
RECURSIVE RouteDistances(_, _, _)
RouteDistances(route, i, pos) ==
    IF i > Len(route) THEN <<>>
    ELSE IF route[i] \notin DOMAIN SIGNAL_POSITIONS
    THEN RouteDistances(route, i + 1, pos)
    ELSE <<[i |-> i, sig |-> route[i],
            dist |-> FlatDistance(pos, SIGNAL_POSITIONS[route[i]])]>>
         \o RouteDistances(route, i + 1, pos)

\* Python slice seq[from : from + n] with 1-based from
Slice(seq, from, n) ==
    IF from > Len(seq) THEN <<>>
    ELSE SubSeq(seq, from, IF from + n - 1 > Len(seq) THEN Len(seq) ELSE from + n - 1)

\* a lookup that gives an unregistered vehicle the first hospital
HospitalOfDefault(ambulance_id) ==
    IF ambulance_id \in DOMAIN AMBULANCE_REGISTRY
    THEN AMBULANCE_REGISTRY[ambulance_id] ELSE "HOSP-001"

\* AMBULANCE_REGISTRY.get(ambulance_id, {}).get('hospital_id')
HospitalOf(ambulance_id) ==
    IF ambulance_id \in DOMAIN AMBULANCE_REGISTRY
    THEN AMBULANCE_REGISTRY[ambulance_id] ELSE None

\* a test that also takes a signal exactly 300 m away for passed
PassedClosestInclusive(dist) == dist <= PASSED_CLOSEST_KM

\* distances[0][2] < 0.3: the closest signal is taken for passed
PassedClosest(dist) == dist < PASSED_CLOSEST_KM

\* services/route_service.py get_route_ahead_signals
get_route_ahead_signals(gps, ambulance_id, max_ahead) ==
    IF ~InGps(gps, ambulance_id) THEN <<>>
    ELSE IF HospitalOf(ambulance_id) \notin DOMAIN ROUTES THEN <<>>
    ELSE Bind(ROUTES[HospitalOf(ambulance_id)], LAMBDA route :
         Bind(RouteDistances(route, 1, GpsOf(gps, ambulance_id).pos),
              LAMBDA distances :
                 IF distances = <<>> THEN <<>>
                 ELSE Bind(Head(SortByDist(distances)), LAMBDA closest :
                         LET current_idx == IF PassedClosest(closest.dist)
                                            THEN closest.i + 1 ELSE closest.i
                         IN  Slice(route, current_idx, max_ahead))))

\* the fallback selection of get_corridor_ahead: the max_signals closest
\* signals of the route, those under 2 km
FallbackSignals(gps, ambulance_id, max_signals) ==
    LET hospital_id == HospitalOf(ambulance_id)
    IN  IF hospital_id # None /\ hospital_id \in DOMAIN ROUTES
        THEN Bind(SortByDist(RouteDistances(ROUTES[hospital_id], 1,
                                            GpsOf(gps, ambulance_id).pos)),
                  LAMBDA sorted :
             Bind(SelectSeq(Slice(sorted, 1, max_signals),
                            LAMBDA x : x.dist < FALLBACK_KM),
                  LAMBDA near : [i \in 1..Len(near) |-> near[i].sig]))
        ELSE <<>>

\* the filter loop of get_corridor_ahead: signals with a known position that
\* are at most 1.5 km away
FilterBehind(relevant, pos) ==
    SelectSeq(relevant,
              LAMBDA sig : /\ sig \in DOMAIN SIGNAL_POSITIONS
                           /\ ~(FlatDistance(pos, SIGNAL_POSITIONS[sig]) > BEHIND_KM))

\* the candidate list of get_corridor_ahead after selection and filtering
CorridorSignals(gps, ambulance_id, max_signals) ==
    Bind(get_route_ahead_signals(gps, ambulance_id, max_signals),
         LAMBDA route_signals :
    Bind(IF route_signals # <<>>
         THEN Slice(route_signals, 1, max_signals)
         ELSE FallbackSignals(gps, ambulance_id, max_signals),
         LAMBDA relevant : FilterBehind(relevant, GpsOf(gps, ambulance_id).pos)))

\* get_or_init_signal for every candidate with a known position (the filter
\* loop creates the signal before it looks at the distance)
RECURSIVE InitSignals(_, _)
InitSignals(store, sigs) ==
    IF sigs = <<>> THEN store
    ELSE InitSignals(get_or_init_signal(store, Head(sigs)), Tail(sigs))

\* an activation loop that does not look at the lock
IsWinnerUnchecked(locks, sig_id, ambulance_id) == None

\* RESOURCE_LOCKS.get(sig_id) and the is_winner expression
LockOf(locks, sig_id) == IF sig_id \in DOMAIN locks THEN locks[sig_id] ELSE None

IsWinner(locks, sig_id, ambulance_id) ==
    IF LockOf(locks, sig_id) # None
    THEN (IF LockOf(locks, sig_id) = ambulance_id THEN PyTrue ELSE PyFalse)
    ELSE None

\* an activation loop without double-activation guard
AlreadyActiveNever(fsm) == FALSE

\* a double-activation guard that only knows the green state
AlreadyActiveGreenOnly(fsm) == fsm.current_state = GREEN_FOR_AMBULANCE

\* the double-activation guard of the activation loop
AlreadyActive(fsm) == fsm.current_state \in PrioritySignalStates

\* whether the activation loop calls transition on relevant[i], a signal it
\* did not skip: a CRITICAL call waits for the signal before it
DrivesTransition(store, relevant, i, severity) ==
    (i > 1 /\ severity = SevCRITICAL)
       => store[relevant[i - 1]].current_state
            \in {PREPARE_PRIORITY, GREEN_FOR_AMBULANCE}

\* the staggered activation loop of get_corridor_ahead from index i on:
\* [store, raised, driven, skipped]
RECURSIVE ActivationLoop(_, _, _, _, _, _, _, _)
ActivationLoop(store, relevant, i, ambulance_id, severity, locks, pos, t) ==
    IF i > Len(relevant)
    THEN [store |-> store, raised |-> FALSE, driven |-> <<>>, skipped |-> {}]
    ELSE LET sig == relevant[i]
             dist == FlatDistance(pos, SIGNAL_POSITIONS[sig])
         IN  IF AlreadyActive(store[sig])
             THEN LET rest == ActivationLoop(store, relevant, i + 1, ambulance_id,
                                             severity, locks, pos, t)
                  IN  [rest EXCEPT !.skipped = @ \cup {sig}]
             ELSE IF ~DrivesTransition(store, relevant, i, severity)
             THEN ActivationLoop(store, relevant, i + 1, ambulance_id, severity,
                                 locks, pos, t)
             ELSE IF SeverityRaises(severity)
             THEN [store |-> store, raised |-> TRUE, driven |-> <<>>, skipped |-> {}]
             ELSE Bind([store EXCEPT ![sig] =
                          Transition(store[sig], ambulance_id, dist, severity,
                                     IsWinner(locks, sig, ambulance_id), t)],
                       LAMBDA driven_store :
                          [ActivationLoop(driven_store, relevant, i + 1, ambulance_id,
                                          severity, locks, pos, t)
                             EXCEPT !.driven = <<sig>> \o @])

\* services/corridor_service.py get_corridor_ahead:
\* [store, raised, corridor, driven, skipped]
get_corridor_ahead(store, gps, locks, ambulance_id, severity, t) ==
    IF ~InGps(gps, ambulance_id)
    THEN [store |-> store, raised |-> FALSE, corridor |-> <<>>, driven |-> <<>>,
          skipped |-> {}]
    ELSE Bind(GpsOf(gps, ambulance_id).pos, LAMBDA pos :
         Bind(get_route_ahead_signals(gps, ambulance_id, MAX_CORRIDOR_SIGNALS),
              LAMBDA route_signals :
         Bind(IF route_signals # <<>>
              THEN Slice(route_signals, 1, MAX_CORRIDOR_SIGNALS)
              ELSE FallbackSignals(gps, ambulance_id, MAX_CORRIDOR_SIGNALS),
              LAMBDA selected :
         Bind(CorridorSignals(gps, ambulance_id, MAX_CORRIDOR_SIGNALS),
              LAMBDA relevant :
         Bind(InitSignals(store,
                          SelectSeq(selected,
                                    LAMBDA sig : sig \in DOMAIN SIGNAL_POSITIONS)),
              LAMBDA initialised :
         Bind(ActivationLoop(initialised, relevant, 1, ambulance_id, severity,
                             locks, pos, t),
              LAMBDA loop :
                 [store |-> loop.store, raised |-> loop.raised,
                  corridor |-> IF loop.raised THEN <<>> ELSE relevant,
                  driven |-> loop.driven, skipped |-> loop.skipped]))))))

\* ------------------------------------------------------------------------
\* services/conflict_resolver.py
\* ------------------------------------------------------------------------
SEVERITY_MAP ==
    (SevLOW :> 1) @@ (SevMODERATE :> 2) @@ (SevHIGH :> 3) @@ (SevCRITICAL :> 4)

\* severity_map.get(amb_id, "LOW")
SeverityFor(severity_map, amb_id) ==
    IF amb_id \in DOMAIN severity_map THEN severity_map[amb_id] ELSE SevLOW

\* dist / (gps.speed_kmh / 3.6) with dist in km, as a fraction; 999 when the
\* vehicle stands
PseudoEta(dist, speed_kmh) ==
    IF speed_kmh > 0 THEN [num |-> 36 * dist, den |-> 100 * speed_kmh]
    ELSE [num |-> ETA_SENTINEL, den |-> 1]

EtaLess(a, b) == a.num * b.den < b.num * a.den

\* f"{eta:.1f}": tenths of a second, rounded
EtaTenths(eta) == (20 * eta.num + eta.den) \div (2 * eta.den)

PriorityScore(g, resource_id, severity_map) ==
    LET sev_score == SEVERITY_MAP[SeverityFor(severity_map, g.id)]
        dist == FlatDistance(g.pos, SIGNAL_POSITIONS[resource_id])
        eta == PseudoEta(dist, g.speed_kmh)
    IN  [ambulance_id |-> g.id, severity_score |-> sev_score, eta_seconds |-> eta,
         dist_km |-> dist, arrival_time |-> g.updated_at,
         reason |-> [sev |-> sev_score, eta |-> EtaTenths(eta), dist |-> dist * 10]]

\* the candidates that have a GPS state, in candidate order
Tracked(gps, candidates) == SelectSeq(candidates, LAMBDA amb_id : InGps(gps, amb_id))

\* SEVERITY_MAP[sev] raises KeyError for a string that is no key
ResolveRaises(gps, candidates, severity_map) ==
    \E i \in 1..Len(Tracked(gps, candidates)) :
        SeverityFor(severity_map, Tracked(gps, candidates)[i]) \notin DOMAIN SEVERITY_MAP

\* a key that ranks the ETA before the severity
KeyGreaterEtaFirst(a, b) ==
    \/ EtaLess(a.eta_seconds, b.eta_seconds)
    \/ /\ ~EtaLess(b.eta_seconds, a.eta_seconds)
       /\ \/ a.severity_score > b.severity_score
          \/ /\ a.severity_score = b.severity_score
             /\ \/ a.dist_km < b.dist_km
                \/ /\ a.dist_km = b.dist_km
                   /\ a.arrival_time > b.arrival_time

\* the key (severity_score, -eta_seconds, -dist_km, arrival_time) of a is
\* greater than the key of b
KeyGreater(a, b) ==
    \/ a.severity_score > b.severity_score
    \/ /\ a.severity_score = b.severity_score
       /\ \/ EtaLess(a.eta_seconds, b.eta_seconds)
          \/ /\ ~EtaLess(b.eta_seconds, a.eta_seconds)
             /\ \/ a.dist_km < b.dist_km
                \/ /\ a.dist_km = b.dist_km
                   /\ a.arrival_time > b.arrival_time

\* max(scores, key=...): the first score with the greatest key
RECURSIVE MaxScore(_, _)
MaxScore(best, rest) ==
    IF rest = <<>> THEN best
    ELSE MaxScore(IF KeyGreater(Head(rest), best) THEN Head(rest) ELSE best, Tail(rest))

\* a lock write that forgets the locks of the other resources
LockWriteOnly(locks, resource_id, winner) == (resource_id :> winner)

\* RESOURCE_LOCKS[resource_id] = winner
LockWrite(locks, resource_id, winner) == (resource_id :> winner) @@ locks

LogAppend(log, entry) ==
    LET l == Append(log, entry)
    IN  IF Len(l) > DECISION_LOG_LIMIT THEN Tail(l) ELSE l

\* resolve_conflict: [locks, log, winner, raised]
resolve_conflict(locks, log, gps, resource_id, candidates, severity_map, t) ==
    LET tracked == Tracked(gps, candidates)
        scores == [i \in 1..Len(tracked) |->
                     PriorityScore(GpsOf(gps, tracked[i]), resource_id, severity_map)]
        winner == MaxScore(Head(scores), Tail(scores))
        losers == SelectSeq(tracked, LAMBDA a : a # winner.ambulance_id)
    IN  IF ResolveRaises(gps, candidates, severity_map)
        THEN [locks |-> locks, log |-> log, winner |-> None, raised |-> TRUE]
        ELSE IF tracked = <<>>
        THEN [locks |-> LockWrite(locks, resource_id, None), log |-> log,
              winner |-> None, raised |-> FALSE]
        ELSE [locks |-> LockWrite(locks, resource_id, winner.ambulance_id),
              log |-> LogAppend(log, [timestamp |-> t, resource |-> resource_id,
                                      winner |-> winner.ambulance_id,
                                      reason |-> winner.reason, losers |-> losers]),
              winner |-> winner.ambulance_id, raised |-> FALSE]

\* ------------------------------------------------------------------------
\* services/multi_amb_service.py
\* ------------------------------------------------------------------------
\* the severity map of get_authorized_corridor: the caller's severity for the
\* caller, MODERATE for every other tracked vehicle
AuthorizedSeverityMap(gps, ambulance_id, severity) ==
    [a \in {gps[i].id : i \in 1..Len(gps)} |->
        IF a = ambulance_id THEN severity ELSE SevMODERATE]

\* the arbitration loop of get_authorized_corridor over the corridor from
\* index i on: [locks, log, raised]
RECURSIVE ArbitrationLoop(_, _, _, _, _, _, _)
ArbitrationLoop(locks, log, gps, corridor, i, severity_map, t) ==
    IF i > Len(corridor) THEN [locks |-> locks, log |-> log, raised |-> FALSE]
    ELSE Bind(resolve_conflict(locks, log, gps, corridor[i], GpsKeys(gps),
                               severity_map, t),
              LAMBDA r :
                 IF r.raised THEN [locks |-> locks, log |-> log, raised |-> TRUE]
                 ELSE ArbitrationLoop(r.locks, r.log, gps, corridor, i + 1,
                                      severity_map, t))

\* get_authorized_corridor: [store, locks, log, raised, corridor, driven, skipped]
get_authorized_corridor(store, gps, locks, log, ambulance_id, severity, t) ==
    Bind(get_corridor_ahead(store, gps, locks, ambulance_id, severity, t),
         LAMBDA c :
    Bind(ArbitrationLoop(locks, log, gps, c.corridor, 1,
                         AuthorizedSeverityMap(gps, ambulance_id, severity), t),
         LAMBDA a :
            IF c.raised
            THEN [store |-> c.store, locks |-> locks, log |-> log, raised |-> TRUE,
                  corridor |-> <<>>, driven |-> c.driven, skipped |-> c.skipped]
            ELSE [store |-> c.store, locks |-> a.locks, log |-> a.log,
                  raised |-> a.raised, corridor |-> c.corridor, driven |-> c.driven,
                  skipped |-> c.skipped]))

\* ------------------------------------------------------------------------
\* State
\* ------------------------------------------------------------------------
VARIABLES
    SIGNAL_STORE,     \* signal_service.SIGNAL_STORE: signal id -> FSM
    GPS_STORE,        \* gps_simulator.GPS_STORE
    RESOURCE_LOCKS,   \* conflict_resolver.RESOURCE_LOCKS: signal id -> vehicle
    DECISION_LOG,     \* conflict_resolver.DECISION_LOG
    TRIPS,            \* the severity of each vehicle's active trip, or None
    now,              \* time.time()
    call              \* the last call made and what it did

vars == <<SIGNAL_STORE, GPS_STORE, RESOURCE_LOCKS, DECISION_LOG, TRIPS, now, call>>

NoCall ==
    [op |-> "none", n |-> 0, amb |-> None, sev |-> <<>>, dist |-> 0,
     cw |-> None, pre |-> NewFSM, raised |-> FALSE, corridor |-> <<>>,
     driven |-> <<>>, skipped |-> {}, winner |-> None, resource |-> None,
     candidates |-> <<>>, severity_map |-> <<>>, max_ahead |-> 0]

\* the module-level stores of the process, as one value
World ==
    [store |-> SIGNAL_STORE, gps |-> GPS_STORE, locks |-> RESOURCE_LOCKS,
     log |-> DECISION_LOG, trips |-> TRIPS, now |-> now, call |-> call]

EmptyWorld ==
    [store |-> <<>>, gps |-> <<>>, locks |-> <<>>, log |-> <<>>,
     trips |-> [v \in Vehicles |-> None], now |-> StartTime, call |-> NoCall]

CallOf(w, op, ambulance_id) ==
    [NoCall EXCEPT !.op = op, !.n = w.call.n + 1, !.amb = ambulance_id]

CorridorCall(w, op, ambulance_id, severity, r) ==
    [CallOf(w, op, ambulance_id) EXCEPT
        !.sev = severity, !.raised = r.raised, !.corridor = r.corridor,
        !.driven = r.driven, !.skipped = r.skipped]

\* ------------------------------------------------------------------------
\* Handlers
\* ------------------------------------------------------------------------
\* time.time() advances between two calls
tick(w) == [w EXCEPT !.now = w.now + TickSeconds,
                     !.call = [NoCall EXCEPT !.op = "tick", !.n = w.call.n + 1]]

\* api/ambulances.py update_location
update_location(w, ambulance_id, pos) ==
    LET old == GpsOf(w.gps, ambulance_id)
        moved == FlatDistance(pos, old.pos)
        speed == IF 72 * moved < SPEED_CAP_KMH THEN 72 * moved ELSE SPEED_CAP_KMH
        state == IF InGps(w.gps, ambulance_id)
                 THEN [id |-> ambulance_id, pos |-> pos, speed_kmh |-> speed,
                       updated_at |-> w.now]
                 ELSE [id |-> ambulance_id, pos |-> pos, speed_kmh |-> 0,
                       updated_at |-> w.now]
    IN  Bind(GpsPut(w.gps, state), LAMBDA gps :
           IF w.trips[ambulance_id] # None
           THEN Bind(get_corridor_ahead(w.store, gps, w.locks, ambulance_id,
                                        w.trips[ambulance_id], w.now),
                     LAMBDA r :
                        [w EXCEPT !.gps = gps, !.store = r.store,
                                  !.call = CorridorCall(w, "update_location",
                                                        ambulance_id,
                                                        w.trips[ambulance_id], r)])
           ELSE [w EXCEPT !.gps = gps,
                          !.call = CallOf(w, "update_location", ambulance_id)])

\* api/corridor.py update_corridor: activate_corridor(vehicle, severity)
update_corridor(w, ambulance_id, severity) ==
    LET r == get_corridor_ahead(w.store, w.gps, w.locks, ambulance_id,
                                severity, w.now)
    IN  [w EXCEPT !.store = r.store,
                  !.call = CorridorCall(w, "update_corridor", ambulance_id,
                                        severity, r)]

\* services/multi_amb_service.py get_authorized_corridor called on the stores
authorized_corridor(w, ambulance_id, severity) ==
    Bind(get_authorized_corridor(w.store, w.gps, w.locks, w.log, ambulance_id,
                                 severity, w.now),
         LAMBDA r :
            [w EXCEPT !.store = r.store, !.locks = r.locks, !.log = r.log,
                      !.call = CorridorCall(w, "authorized_corridor", ambulance_id,
                                            severity, r)])

\* api/trips.py create_trip: the trip is stored and get_trip_with_details
\* runs the corridor for it
create_trip(w, ambulance_id, severity) ==
    LET r == get_corridor_ahead(w.store, w.gps, w.locks, ambulance_id,
                                severity, w.now)
    IN  [w EXCEPT !.trips[ambulance_id] = severity, !.store = r.store,
                  !.call = CorridorCall(w, "create_trip", ambulance_id,
                                        severity, r)]

\* a trip completion that also releases the locks of the vehicle
complete_trip_releasing(w, ambulance_id) ==
    [w EXCEPT !.trips[ambulance_id] = None,
              !.store = [s \in DOMAIN w.store |->
                           IF w.store[s].current_owner = ambulance_id
                           THEN FsmReset(w.store[s]) ELSE w.store[s]],
              !.locks = [s \in DOMAIN w.locks |->
                           IF w.locks[s] = ambulance_id THEN None ELSE w.locks[s]],
              !.call = CallOf(w, "complete_trip", ambulance_id)]

\* api/trips.py complete_trip: every signal owned by the vehicle is reset
complete_trip(w, ambulance_id) ==
    [w EXCEPT !.trips[ambulance_id] = None,
              !.store = [s \in DOMAIN w.store |->
                           IF w.store[s].current_owner = ambulance_id
                           THEN FsmReset(w.store[s]) ELSE w.store[s]],
              !.call = CallOf(w, "complete_trip", ambulance_id)]

\* api/system.py system_status: get_authorized_corridor(amb, "HIGH") for
\* every tracked vehicle, in the order of GPS_STORE
RECURSIVE StatusLoop(_, _, _, _, _, _)
StatusLoop(store, locks, log, gps, i, t) ==
    IF i > Len(gps)
    THEN [store |-> store, locks |-> locks, log |-> log, raised |-> FALSE,
          driven |-> <<>>, skipped |-> {}]
    ELSE Bind(get_authorized_corridor(store, gps, locks, log, gps[i].id,
                                      SevHIGH, t),
              LAMBDA r :
                 IF r.raised
                 THEN [store |-> r.store, locks |-> r.locks, log |-> r.log,
                       raised |-> TRUE, driven |-> r.driven, skipped |-> r.skipped]
                 ELSE [StatusLoop(r.store, r.locks, r.log, gps, i + 1, t)
                         EXCEPT !.driven = r.driven \o @,
                                !.skipped = r.skipped \cup @])

system_status(w) ==
    LET r == StatusLoop(w.store, w.locks, w.log, w.gps, 1, w.now)
    IN  [w EXCEPT !.store = r.store, !.locks = r.locks, !.log = r.log,
                  !.call = [CallOf(w, "system_status", None) EXCEPT
                              !.sev = SevHIGH, !.raised = r.raised,
                              !.driven = r.driven, !.skipped = r.skipped]]

\* api/corridor.py get_corridor_status: the status of a vehicle's corridor is
\* read after get_corridor_ahead(vehicle, "HIGH") has computed it
get_corridor_status(w, ambulance_id) ==
    LET r == get_corridor_ahead(w.store, w.gps, w.locks, ambulance_id,
                                SevHIGH, w.now)
    IN  [w EXCEPT !.store = r.store,
                  !.call = CorridorCall(w, "get_corridor_status", ambulance_id,
                                        SevHIGH, r)]

\* api/trips.py get_trip_route_signals: the signals of a trip are read after
\* get_corridor_ahead(vehicle, severity of the trip) has computed them
get_trip_route_signals(w, ambulance_id) ==
    LET r == get_corridor_ahead(w.store, w.gps, w.locks, ambulance_id,
                                w.trips[ambulance_id], w.now)
    IN  [w EXCEPT !.store = r.store,
                  !.call = CorridorCall(w, "get_trip_route_signals",
                                        ambulance_id, w.trips[ambulance_id], r)]

\* api/signal.py simulate_priority -> update_signal_for_ambulance: one
\* transition of the demo signal, without an arbitration outcome
simulate_priority(w, ambulance_id, severity) ==
    LET store == get_or_init_signal(w.store, DefaultSignal)
        distance_km == FlatDistance(GpsOf(w.gps, ambulance_id).pos,
                                    DemoSignalPosition)
        fsm == Transition(store[DefaultSignal], ambulance_id, distance_km,
                          severity, None, w.now)
    IN  [w EXCEPT !.store = [store EXCEPT ![DefaultSignal] = fsm],
                  !.call = [CallOf(w, "simulate_priority", ambulance_id) EXCEPT
                              !.sev = severity, !.dist = distance_km,
                              !.pre = store[DefaultSignal]]]

\* services/gps_simulator.py _simulate_route_for_ambulance, the step in which
\* the simulated vehicle is within 100 m of its hospital: the vehicle stops
\* there and every lock it holds is released
simulator_arrive(w, ambulance_id) ==
    [w EXCEPT !.gps = GpsPut(w.gps,
                             [id |-> ambulance_id,
                              pos |-> HOSPITAL_REGISTRY[HospitalOf(ambulance_id)],
                              speed_kmh |-> 0, updated_at |-> w.now]),
              !.locks = [s \in DOMAIN w.locks |->
                           IF w.locks[s] = ambulance_id THEN None ELSE w.locks[s]],
              !.call = CallOf(w, "simulator_arrive", ambulance_id)]

\* a request the handler accepts (a rejected one changes nothing)
Accepts(w, c) ==
    CASE c.op = "tick" -> w.now < MaxTime
      [] c.op = "create_trip" -> w.trips[c.amb] = None
      [] c.op = "complete_trip" -> w.trips[c.amb] # None
      [] c.op = "get_trip_route_signals" -> w.trips[c.amb] # None
      [] c.op = "simulate_priority" ->
            ~SeverityRaises(c.sev) /\ InGps(w.gps, c.amb)
      [] c.op = "simulator_arrive" ->
            InGps(w.gps, c.amb) /\ HospitalOf(c.amb) \in DOMAIN HOSPITAL_REGISTRY
      [] OTHER -> TRUE

Handle(w, c) ==
    CASE c.op = "tick" -> tick(w)
      [] c.op = "update_location" -> update_location(w, c.amb, c.pos)
      [] c.op = "update_corridor" -> update_corridor(w, c.amb, c.sev)
      [] c.op = "authorized_corridor" -> authorized_corridor(w, c.amb, c.sev)
      [] c.op = "create_trip" -> create_trip(w, c.amb, c.sev)
      [] c.op = "complete_trip" -> complete_trip(w, c.amb)
      [] c.op = "system_status" -> system_status(w)
      [] c.op = "get_corridor_status" -> get_corridor_status(w, c.amb)
      [] c.op = "get_trip_route_signals" -> get_trip_route_signals(w, c.amb)
      [] c.op = "simulate_priority" -> simulate_priority(w, c.amb, c.sev)
      [] c.op = "simulator_arrive" -> simulator_arrive(w, c.amb)

Req(op, ambulance_id, pos, severity) ==
    [op |-> op, amb |-> ambulance_id, pos |-> pos, sev |-> severity]

\* the requests served before the exploration starts
RECURSIVE Serve(_, _)
Serve(w, requests) ==
    IF requests = <<>> THEN w
    ELSE Bind(Handle(w, Head(requests)), LAMBDA v : Serve(v, Tail(requests)))

GreenForOne ==
    <<Req("update_location", "AMB-1", 1, <<>>),
      Req("simulate_priority", "AMB-1", 0, SevHIGH),
      Req("simulate_priority", "AMB-1", 0, SevHIGH),
      Req("update_location", "AMB-2", 3, <<>>)>>

Waiting == <<Req("tick", None, 0, <<>>), Req("tick", None, 0, <<>>)>>

\* both vehicles were dispatched and have not reported a position yet
BothOnTrips ==
    <<Req("create_trip", "AMB-1", 0, SevHIGH), Req("create_trip", "AMB-2", 0, SevHIGH)>>

\* AMB-1 on a trip, 0.4 km before SIGNAL-003, the last signal of its route
NearingLastSignal ==
    <<Req("create_trip", "AMB-1", 0, SevHIGH),
      Req("update_location", "AMB-1", 10, <<>>)>>

Histories ==
    {<<>>,
     <<Req("update_location", "AMB-1", 3, <<>>)>>,
     <<Req("update_location", "AMB-1", 1, <<>>),
       Req("simulate_priority", "AMB-1", 0, SevHIGH)>>,
     GreenForOne,
     GreenForOne \o Waiting,
     <<Req("update_location", "AMB-1", 3, <<>>),
       Req("update_location", "AMB-2", 1, <<>>),
       Req("system_status", None, 0, <<>>)>>,
     <<Req("create_trip", "AMB-1", 0, SevHIGH),
       Req("update_location", "AMB-1", 3, <<>>)>>,
     BothOnTrips,
     NearingLastSignal}

Init ==
    \E h \in Histories :
       \E w \in {Serve(EmptyWorld, h)} :
           /\ SIGNAL_STORE = w.store
           /\ GPS_STORE = w.gps
           /\ RESOURCE_LOCKS = w.locks
           /\ DECISION_LOG = w.log
           /\ TRIPS = w.trips
           /\ now = w.now
           /\ call = NoCall

\* one request handled. The handlers are coroutines of one event loop and
\* none of them awaits between its first read and its last write of the
\* stores, so requests that arrive concurrently are handled one after the
\* other, in any order
Step(c) ==
    /\ call.n < MaxSteps
    /\ Accepts(World, c)
    /\ \E w \in {Handle(World, c)} :
           /\ SIGNAL_STORE' = w.store
           /\ GPS_STORE' = w.gps
           /\ RESOURCE_LOCKS' = w.locks
           /\ DECISION_LOG' = w.log
           /\ TRIPS' = w.trips
           /\ now' = w.now
           /\ call' = w.call

Tick == Step(Req("tick", None, 0, <<>>))

UpdateLocation(ambulance_id, pos) ==
    Step(Req("update_location", ambulance_id, pos, <<>>))

UpdateCorridor(ambulance_id, severity) ==
    Step(Req("update_corridor", ambulance_id, 0, severity))

CreateTrip(ambulance_id, severity) ==
    Step(Req("create_trip", ambulance_id, 0, severity))

CompleteTrip(ambulance_id) == Step(Req("complete_trip", ambulance_id, 0, <<>>))

SystemStatus == Step(Req("system_status", None, 0, <<>>))

GetCorridorStatus(ambulance_id) ==
    Step(Req("get_corridor_status", ambulance_id, 0, <<>>))

GetTripRouteSignals(ambulance_id) ==
    Step(Req("get_trip_route_signals", ambulance_id, 0, <<>>))

SimulatePriority(ambulance_id, severity) ==
    Step(Req("simulate_priority", ambulance_id, 0, severity))

SimulatorArrive(ambulance_id) ==
    Step(Req("simulator_arrive", ambulance_id, 0, <<>>))

Next ==
    \/ \E v \in Vehicles, p \in VehiclePositions : UpdateLocation(v, p)
    \/ \E v \in Vehicles, s \in CorridorSeverities : UpdateCorridor(v, s)
    \/ \E v \in Vehicles, s \in TripSeverities : CreateTrip(v, s)
    \/ \E v \in Vehicles : CompleteTrip(v)
    \/ SystemStatus
    \/ \E v \in Vehicles : GetCorridorStatus(v)
    \/ \E v \in Vehicles : GetTripRouteSignals(v)
    \/ \E v \in Vehicles, s \in DemoSeverities : SimulatePriority(v, s)
    \/ \E v \in Vehicles : SimulatorArrive(v)
    \/ Tick

Spec == Init /\ [][Next]_vars

\* ------------------------------------------------------------------------
\* The two engine calls made directly, with any severity string
\* ------------------------------------------------------------------------
EngineSeverities == {SevHIGH, SevCRITICAL, SevRaw, SevUnknown}

ActivateCorridor(ambulance_id, severity) ==
    Step(Req("update_corridor", ambulance_id, 0, severity))

AuthorizedCorridor(ambulance_id, severity) ==
    Step(Req("authorized_corridor", ambulance_id, 0, severity))

NextEngine ==
    \/ \E v \in Vehicles, s \in EngineSeverities : ActivateCorridor(v, s)
    \/ \E v \in Vehicles, s \in EngineSeverities : AuthorizedCorridor(v, s)

SpecEngine == Init /\ [][NextEngine]_vars

\* ------------------------------------------------------------------------
\* Route selection and corridor activation for vehicles of every kind
\* ------------------------------------------------------------------------
\* AMB-3 drives the five-signal route, AMB-4 has a hospital without route,
\* AMB-5 a route of unknown signals, AMB-6 is not registered
RouteVehicles == {"AMB-3", "AMB-4", "AMB-5", "AMB-6"}
AllVehicles == Vehicles \cup RouteVehicles

\* positions in 0.1 km: near SIGNAL-001, before the five-signal route, on
\* its first signal, halfway between two signals, 0.3 km and 0.2 km before
\* the third signal, 0.1 km before the last one
RoutePositions == {1, 95, 100, 115, 117, 118, 139}

MaxAheads == {1, 3}
RouteSeverities == {SevHIGH, SevUnknown}
RouteHistories == {<<>>, GreenForOne}

InitRoute ==
    \E h \in RouteHistories :
       \E w \in {Serve(EmptyWorld, h)} :
           /\ SIGNAL_STORE = w.store
           /\ \/ GPS_STORE = w.gps
              \/ \E v \in RouteVehicles, p \in RoutePositions :
                    GPS_STORE = GpsPut(w.gps, [id |-> v, pos |-> p, speed_kmh |-> 0,
                                               updated_at |-> w.now])
           /\ RESOURCE_LOCKS = w.locks
           /\ DECISION_LOG = w.log
           /\ TRIPS = w.trips
           /\ now = w.now
           /\ call = NoCall

\* get_route_ahead_signals(ambulance_id, max_ahead) called on its own
RouteAhead(ambulance_id, max_ahead) ==
    /\ call.n < MaxSteps
    /\ call' = [CallOf(World, "route_ahead", ambulance_id) EXCEPT
                  !.corridor = get_route_ahead_signals(GPS_STORE, ambulance_id,
                                                       max_ahead),
                  !.max_ahead = max_ahead]
    /\ UNCHANGED <<SIGNAL_STORE, GPS_STORE, RESOURCE_LOCKS, DECISION_LOG, TRIPS, now>>

NextRoute ==
    \/ \E v \in AllVehicles, k \in MaxAheads : RouteAhead(v, k)
    \/ \E v \in AllVehicles, s \in RouteSeverities : ActivateCorridor(v, s)

SpecRoute == InitRoute /\ [][NextRoute]_vars

\* ------------------------------------------------------------------------
\* A vehicle on a trip that keeps sending position updates
\* ------------------------------------------------------------------------
DriveVehicle == "AMB-1"

\* positions in 0.1 km: 0.1 km before SIGNAL-003, then 0.6 km, 1.2 km and
\* 2.6 km after it
DrivePositions == {13, 20, 26, 40}

\* the vehicle is on a trip and stands 0.4 km before SIGNAL-003
InitDrive ==
    \E w \in {Serve(EmptyWorld, NearingLastSignal)} :
        /\ SIGNAL_STORE = w.store
        /\ GPS_STORE = w.gps
        /\ RESOURCE_LOCKS = w.locks
        /\ DECISION_LOG = w.log
        /\ TRIPS = w.trips
        /\ now = w.now
        /\ call = NoCall

\* one position update of the vehicle (the calls are not counted)
Drive(pos) ==
    \E w \in {update_location(World, DriveVehicle, pos)} :
        /\ SIGNAL_STORE' = w.store
        /\ GPS_STORE' = w.gps
        /\ RESOURCE_LOCKS' = w.locks
        /\ DECISION_LOG' = w.log
        /\ TRIPS' = w.trips
        /\ now' = w.now
        /\ call' = [w.call EXCEPT !.n = 1]

NextDrive == \E pos \in DrivePositions : Drive(pos)

\* the position updates keep coming
SpecDrive == InitDrive /\ [][NextDrive]_vars /\ WF_vars(NextDrive)

\* ------------------------------------------------------------------------
\* One TrafficSignalFSM driven through its methods
\* ------------------------------------------------------------------------
\* a signal's life so far: the calls of one priority cycle, made at StartTime
Approach == [amb |-> "AMB-1", dist |-> 4, sev |-> SevHIGH, cw |-> None]
Arrive == [amb |-> "AMB-1", dist |-> 1, sev |-> SevHIGH, cw |-> PyTrue]
Leave == [amb |-> "AMB-1", dist |-> 11, sev |-> SevHIGH, cw |-> None]

RECURSIVE RunCalls(_, _)
RunCalls(fsm, calls) ==
    IF calls = <<>> THEN fsm
    ELSE Bind(Transition(fsm, Head(calls).amb, Head(calls).dist,
                         Head(calls).sev, Head(calls).cw, StartTime),
              LAMBDA next : RunCalls(next, Tail(calls)))

\* calls that leave the signal NORMAL: n of them, the first unlike the others
Distant == [amb |-> "AMB-2", dist |-> 10, sev |-> SevMODERATE, cw |-> None]
Idle == [amb |-> "AMB-1", dist |-> 11, sev |-> SevLOW, cw |-> None]

Quiet(n) == [i \in 1..n |-> IF i = 1 THEN Distant ELSE Idle]

PriorCalls ==
    {<<>>, <<Approach>>, <<Approach, Arrive>>, <<Approach, Arrive, Leave>>,
     <<Approach, Leave>>, Quiet(HISTORY_LIMIT - 1), Quiet(HISTORY_LIMIT)}

InitFSM ==
    /\ \E calls \in PriorCalls :
          SIGNAL_STORE = (DefaultSignal :> RunCalls(NewFSM, calls))
    /\ GPS_STORE = <<>>
    /\ RESOURCE_LOCKS = <<>>
    /\ DECISION_LOG = <<>>
    /\ TRIPS = [v \in Vehicles |-> None]
    /\ now = StartTime
    /\ call = NoCall

FsmTransitionCall(ambulance_id, distance_km, severity, conflict_winner) ==
    LET fsm == SIGNAL_STORE[DefaultSignal]
        raises == SeverityRaises(severity)
    IN  /\ call.n < MaxCalls
        /\ SIGNAL_STORE' =
             IF raises THEN SIGNAL_STORE
             ELSE [SIGNAL_STORE EXCEPT ![DefaultSignal] =
                     Transition(fsm, ambulance_id, distance_km, severity,
                                conflict_winner, now)]
        /\ call' = IF raises
                    THEN [NoCall EXCEPT !.op = "transition", !.n = call.n + 1,
                                        !.sev = severity, !.pre = fsm,
                                        !.raised = TRUE]
                    ELSE [NoCall EXCEPT !.op = "transition", !.n = call.n + 1,
                                        !.amb = ambulance_id, !.sev = severity,
                                        !.dist = distance_km,
                                        !.cw = conflict_winner, !.pre = fsm]
        /\ UNCHANGED <<GPS_STORE, RESOURCE_LOCKS, DECISION_LOG, TRIPS, now>>

FsmResetCall ==
    /\ call.op # "reset"
    /\ SIGNAL_STORE' = [SIGNAL_STORE EXCEPT ![DefaultSignal] = FsmReset(@)]
    /\ call' = [NoCall EXCEPT !.op = "reset", !.n = call.n,
                              !.pre = SIGNAL_STORE[DefaultSignal]]
    /\ UNCHANGED <<GPS_STORE, RESOURCE_LOCKS, DECISION_LOG, TRIPS, now>>

FsmTick ==
    /\ now < MaxTime
    /\ SIGNAL_STORE[DefaultSignal].current_state = GREEN_FOR_AMBULANCE
    /\ now' = now + TickSeconds
    /\ UNCHANGED <<SIGNAL_STORE, GPS_STORE, RESOURCE_LOCKS, DECISION_LOG, TRIPS, call>>

NextFSM ==
    \/ \E v \in Vehicles, d \in DistanceInputs, s \in SeverityInputs,
          cw \in ConflictWinnerInputs : FsmTransitionCall(v, d, s, cw)
    \/ FsmResetCall
    \/ FsmTick

SpecFSM == InitFSM /\ [][NextFSM]_vars

\* ------------------------------------------------------------------------
\* resolve_conflict called on its own
\* ------------------------------------------------------------------------
ResolvePositions == {250, 1000}
ResolveSpeeds == {0, 9, 36}
ArrivalTimes == {0, StartTime}

GpsStates(v) ==
    [id : {v}, pos : ResolvePositions, speed_kmh : ResolveSpeeds,
     updated_at : ArrivalTimes]

\* the position samples held when the calls are made
ResolveStores ==
    {<<>>}
      \cup {<<g>> : g \in GpsStates("AMB-1") \cup GpsStates("AMB-2")}
      \cup {<<g, h>> : g \in GpsStates("AMB-1"), h \in GpsStates("AMB-2")}

CandidateLists == {<<>>, <<"AMB-2">>, <<"AMB-1", "AMB-2">>, <<"AMB-2", "AMB-1">>}

SeverityMaps ==
    {("AMB-1" :> SevCRITICAL) @@ ("AMB-2" :> SevHIGH),
     ("AMB-1" :> SevHIGH) @@ ("AMB-2" :> SevHIGH),
     ("AMB-1" :> SevMODERATE)}

InitResolve ==
    /\ SIGNAL_STORE = <<>>
    /\ GPS_STORE \in ResolveStores
    /\ RESOURCE_LOCKS = <<>>
    /\ DECISION_LOG = <<>>
    /\ TRIPS = [v \in Vehicles |-> None]
    /\ now = StartTime
    /\ call = NoCall

ResolveCall(resource_id, candidates, severity_map) ==
    LET r == resolve_conflict(RESOURCE_LOCKS, DECISION_LOG, GPS_STORE, resource_id,
                              candidates, severity_map, now)
    IN  /\ call.n < MaxResolves
        /\ RESOURCE_LOCKS' = r.locks
        /\ DECISION_LOG' = r.log
        /\ call' = [NoCall EXCEPT !.op = "resolve", !.n = call.n + 1,
                                  !.winner = r.winner, !.raised = r.raised,
                                  !.resource = resource_id,
                                  !.candidates = candidates,
                                  !.severity_map = severity_map]
        /\ UNCHANGED <<SIGNAL_STORE, GPS_STORE, TRIPS, now>>

\* a second resource, arbitrated with one severity map
SecondResource == "SIGNAL-002"
SecondSeverityMap == "AMB-1" :> SevMODERATE

NextResolve ==
    \/ \E c \in CandidateLists, m \in SeverityMaps : ResolveCall(DefaultSignal, c, m)
    \/ \E c \in CandidateLists : ResolveCall(SecondResource, c, SecondSeverityMap)

SpecResolve == InitResolve /\ [][NextResolve]_vars

\* ------------------------------------------------------------------------
\* Properties of one signal (SpecFSM)
\* ------------------------------------------------------------------------
TheSignal == SIGNAL_STORE[DefaultSignal]

LastEntry == TheSignal.history[Len(TheSignal.history)]

\* a transition call that was accepted, on a signal that was in state st
AcceptedOn(st) ==
    call.op = "transition" /\ ~call.raised /\ call.pre.current_state = st

\* C1: after any sequence of transition calls, accepted or rejected, and of
\* resets, a signal has an owner if and only if it is in PREPARE_PRIORITY or
\* GREEN_FOR_AMBULANCE; it has none in NORMAL and in RESET.
C1_OwnerIffPriority ==
    \A s \in DOMAIN SIGNAL_STORE :
       (SIGNAL_STORE[s].current_owner # None)
          <=> (SIGNAL_STORE[s].current_state \in {PREPARE_PRIORITY, GREEN_FOR_AMBULANCE})

\* an owned signal was reset, and an owned signal was moved to RESET
C1_Witness ==
    /\ call.pre.current_owner # None
    /\ TheSignal.current_owner = None
    /\ \/ call.op = "reset"
       \/ call.op = "transition" /\ TheSignal.current_state = RESET

\* C2: green_started_at is set if and only if the signal is in
\* GREEN_FOR_AMBULANCE; the transition to RESET clears it.
C2_GreenStartIffGreen ==
    \A s \in DOMAIN SIGNAL_STORE :
       (SIGNAL_STORE[s].green_start_time # NoneTime)
          <=> (SIGNAL_STORE[s].current_state = GREEN_FOR_AMBULANCE)

\* C9: a transition call on a NORMAL signal that did not lose arbitration moves
\* it to PREPARE_PRIORITY, owned by the caller, exactly when the distance is
\* below 0.5 km and the severity is HIGH or CRITICAL; otherwise the signal
\* stays NORMAL without owner.
C9_TriggerExactly ==
    (AcceptedOn(NORMAL) /\ call.cw # PyFalse)
       => IF call.dist < 5
             /\ normalize_severity(call.sev) \in {SevHIGH, SevCRITICAL}
          THEN /\ TheSignal.current_state = PREPARE_PRIORITY
               /\ TheSignal.current_owner = call.amb
          ELSE /\ TheSignal.current_state = NORMAL
               /\ TheSignal.current_owner = None

\* a HIGH call at exactly 0.5 km left the signal NORMAL
C9_Witness ==
    /\ AcceptedOn(NORMAL)
    /\ call.cw # PyFalse
    /\ call.dist = 5
    /\ call.sev = SevHIGH
    /\ TheSignal.current_state = NORMAL

\* C10: a transition call on a NORMAL signal that lost arbitration leaves it
\* NORMAL without owner for every distance and every valid severity, and the
\* history entry it appends carries the suppression reason.
C10_SuppressionFirst ==
    (AcceptedOn(NORMAL) /\ call.cw = PyFalse)
       => /\ TheSignal.current_state = NORMAL
          /\ TheSignal.current_owner = None
          /\ Len(TheSignal.history)
               = (IF Len(call.pre.history) < HISTORY_LIMIT
                  THEN Len(call.pre.history) + 1 ELSE HISTORY_LIMIT)
          /\ LastEntry.state = NORMAL
          /\ LastEntry.reason.reason
               = "Suppressed by conflict resolution (lost arbitration)"

\* a suppressed CRITICAL call from within 0.5 km
C10_Witness ==
    /\ AcceptedOn(NORMAL)
    /\ call.cw = PyFalse
    /\ call.dist < 5
    /\ call.sev = SevCRITICAL
    /\ TheSignal.current_state = NORMAL

\* an accepted transition call is made on the signal, which is in state st
AcceptedStepOn(st) ==
    /\ call'.op = "transition"
    /\ call'.n = call.n + 1
    /\ ~call'.raised
    /\ TheSignal.current_state = st

\* C11: a transition call on a GREEN_FOR_AMBULANCE signal whose green started
\* more than 60 s ago moves it to RESET and clears the owner, at any distance;
\* with at most 60 s elapsed and a distance of at most 1.0 km the signal stays
\* GREEN_FOR_AMBULANCE and keeps its owner.
C11_GreenTimeout ==
    [][AcceptedStepOn(GREEN_FOR_AMBULANCE)
         => /\ now - TheSignal.green_start_time > 60
               => /\ TheSignal'.current_state = RESET
                  /\ TheSignal'.current_owner = None
            /\ (now - TheSignal.green_start_time <= 60 /\ call'.dist <= 10)
               => /\ TheSignal'.current_state = GREEN_FOR_AMBULANCE
                  /\ TheSignal'.current_owner = TheSignal.current_owner]_vars

\* a call from 0.1 km reset a signal whose green time had run out
C11_Witness ==
    /\ call.op = "transition"
    /\ call.pre.current_state = GREEN_FOR_AMBULANCE
    /\ now - call.pre.green_start_time > 60
    /\ call.dist = 1
    /\ TheSignal.current_state = RESET
    /\ TheSignal.current_owner = None

\* C12: a transition call on a signal in RESET moves it to NORMAL and clears
\* owner and green_started_at, whichever vehicle calls, at whatever distance,
\* severity and arbitration outcome.
C12_ResetLeavesOnNextCall ==
    [][AcceptedStepOn(RESET)
         => /\ TheSignal'.current_state = NORMAL
            /\ TheSignal'.current_owner = None
            /\ TheSignal'.green_start_time = NoneTime]_vars

\* a HIGH call from 0.1 km that won arbitration, made by another vehicle on a
\* signal in RESET that still carried a green start time
C12_Witness ==
    /\ call.op = "transition"
    /\ ~call.raised
    /\ call.pre.current_state = RESET
    /\ call.pre.green_start_time # NoneTime
    /\ call.amb = "AMB-2"
    /\ call.dist = 1
    /\ call.sev = SevHIGH
    /\ call.cw = PyTrue
    /\ TheSignal.current_state = NORMAL

\* the history entry that an accepted call writes
EntryOfStep ==
    [state |-> TheSignal'.current_state,
     reason |-> [reason |-> TheSignal'.history[Len(TheSignal'.history)].reason.reason,
                 severity |-> normalize_severity(call'.sev),
                 distance |-> call'.dist,
                 conflict_winner |-> call'.cw]]

\* C13: every accepted transition call appends exactly one history entry,
\* whether or not the state changed; the history keeps the entries of the last
\* 50 calls in call order, the oldest entry is evicted first, the length never
\* exceeds 50.
C13_HistoryOfLastFifty ==
    [][(call'.op = "transition" /\ call'.n = call.n + 1 /\ ~call'.raised)
         => LET old == TheSignal.history
                new == TheSignal'.history
            IN  /\ Len(new) = (IF Len(old) < 50 THEN Len(old) + 1 ELSE 50)
                /\ new[Len(new)] = EntryOfStep
                /\ SubSeq(new, 1, Len(new) - 1)
                     = (IF Len(old) < 50 THEN old ELSE Tail(old))]_vars

\* the 51st call: the first entry is gone, the newest is present, and the call
\* did not change the state
C13_Witness ==
    /\ call.op = "transition"
    /\ ~call.raised
    /\ Len(call.pre.history) = 50
    /\ Len(TheSignal.history) = 50
    /\ TheSignal.history[1] = call.pre.history[2]
    /\ TheSignal.history[1] # call.pre.history[1]
    /\ LastEntry.reason.distance = call.dist
    /\ call.dist = 5
    /\ TheSignal.current_state = call.pre.current_state

\* C14: a transition call whose severity is none of LOW, MODERATE, HIGH,
\* CRITICAL (compared upper-cased and stripped, as the engine normalises it)
\* fails with a validation error in every signal state and leaves state, owner,
\* green_started_at and history unchanged.
C14_InvalidSeverityRejected ==
    [][(/\ call'.op = "transition"
        /\ call'.n = call.n + 1
        /\ StrStrip(StrUpper(call'.sev))
             \notin {SevLOW, SevMODERATE, SevHIGH, SevCRITICAL})
         => /\ call'.raised
            /\ TheSignal' = TheSignal]_vars

\* a call with an unknown severity was rejected on a signal in RESET, which
\* any accepted call would have moved
C14_Witness ==
    /\ call.op = "transition"
    /\ call.raised
    /\ call.sev = SevUnknown
    /\ call.pre.current_state = RESET
    /\ TheSignal = call.pre

\* C19: in every reachable signal state the signal-state endpoint and the
\* FSM's green_time_remaining report the same remaining green time:
\* max(0, max_green_time - elapsed) while the signal is GREEN_FOR_AMBULANCE
\* and 0 in every other state, never negative and never above max_green_time
C19_ProjectionsAgree ==
    LET expected == IF TheSignal.current_state = GREEN_FOR_AMBULANCE
                    THEN AtLeastZero(max_green_time
                                       - (now - TheSignal.green_start_time))
                    ELSE 0
    IN  /\ get_signal_state(TheSignal, now) = green_time_remaining(TheSignal, now)
        /\ green_time_remaining(TheSignal, now) = expected
        /\ expected >= 0
        /\ expected <= max_green_time

\* ------------------------------------------------------------------------
\* Properties of resolve_conflict (SpecResolve)
\* ------------------------------------------------------------------------
\* the candidates of the last call that have a position sample
Sampled == {v \in {call.candidates[i] : i \in 1..Len(call.candidates)} :
               InGps(GPS_STORE, v)}

RankOf(v) ==
    LET sev == IF v \in DOMAIN call.severity_map THEN call.severity_map[v]
               ELSE SevLOW
    IN  CASE sev = SevLOW -> 1 [] sev = SevMODERATE -> 2
          [] sev = SevHIGH -> 3 [] sev = SevCRITICAL -> 4

DistanceOf(v) == FlatDistance(GpsOf(GPS_STORE, v).pos, SIGNAL_POSITIONS[call.resource])

\* the ETA of a is lower than the ETA of b: distance / (speed / 3.6) for a
\* moving vehicle, 999 s for a standing one
EtaLower(a, b) ==
    LET sa == GpsOf(GPS_STORE, a).speed_kmh
        sb == GpsOf(GPS_STORE, b).speed_kmh
    IN  CASE sa > 0 /\ sb > 0 -> DistanceOf(a) * sb < DistanceOf(b) * sa
          [] sa > 0 /\ sb = 0 -> 36 * DistanceOf(a) < 999 * 100 * sa
          [] sa = 0 /\ sb > 0 -> 999 * 100 * sb < 36 * DistanceOf(b)
          [] OTHER -> FALSE

\* a comes before b in the order severity, ETA, distance, arrival
Outranks(a, b) ==
    \/ RankOf(a) > RankOf(b)
    \/ /\ RankOf(a) = RankOf(b)
       /\ \/ EtaLower(a, b)
          \/ /\ ~EtaLower(b, a)
             /\ \/ DistanceOf(a) < DistanceOf(b)
                \/ /\ DistanceOf(a) = DistanceOf(b)
                   /\ GpsOf(GPS_STORE, a).updated_at > GpsOf(GPS_STORE, b).updated_at

WinnerIsMaximal ==
    call.op = "resolve"
       => IF Sampled = {} THEN call.winner = None
          ELSE /\ call.winner \in Sampled
               /\ \A v \in Sampled : ~Outranks(v, call.winner)
               /\ LET entry == DECISION_LOG[Len(DECISION_LOG)]
                  IN  /\ entry.winner = call.winner
                      /\ {entry.losers[i] : i \in 1..Len(entry.losers)}
                           = Sampled \ {call.winner}

SameInputs ==
    /\ call.op = "resolve"
    /\ call'.resource = call.resource
    /\ call'.candidates = call.candidates
    /\ call'.severity_map = call.severity_map
    /\ GPS_STORE' = GPS_STORE

\* C6: resolve returns, among the candidates that have a position sample, a
\* vehicle that no other outranks in the order highest severity, lowest ETA,
\* shortest distance, latest arrival; a vehicle without a sample is neither
\* winner nor loser; a call repeated with the same inputs returns the same
\* winner.
C6_LexicographicWinner ==
    [][call'.op = "resolve"
         => /\ WinnerIsMaximal'
            /\ SameInputs => call'.winner = call.winner]_vars

\* CRITICAL with ETA 40 s wins against HIGH with ETA 10 s
C6_Witness ==
    /\ call.op = "resolve"
    /\ Sampled = {"AMB-1", "AMB-2"}
    /\ RankOf("AMB-1") = 4
    /\ RankOf("AMB-2") = 3
    /\ GpsOf(GPS_STORE, "AMB-1").speed_kmh = 9
    /\ DistanceOf("AMB-1") = 1000
    /\ GpsOf(GPS_STORE, "AMB-2").speed_kmh = 9
    /\ DistanceOf("AMB-2") = 250
    /\ call.winner = "AMB-1"
    /\ call.n = 2

\* C7: every call of resolve appends exactly one entry to the decision log,
\* also the call in which no candidate has a position sample.
C7_OneEntryPerCall ==
    [][(call'.op = "resolve" /\ call'.n = call.n + 1)
         => Len(DECISION_LOG') = Len(DECISION_LOG) + 1]_vars

\* C16: after resolve(resource_id, candidates, severities) returns w, the
\* lock of resource_id is w, w is none exactly when no candidate has a
\* position sample, the locks of all other resources are as before, and
\* no signal state and no position sample has changed
C16_ResolveFrame ==
    [][(call'.n = call.n + 1 /\ call'.op = "resolve" /\ ~call'.raised)
         => /\ call'.resource \in DOMAIN RESOURCE_LOCKS'
            /\ RESOURCE_LOCKS'[call'.resource] = call'.winner
            /\ (call'.winner = None) <=> (Tracked(GPS_STORE, call'.candidates) = <<>>)
            /\ DOMAIN RESOURCE_LOCKS' = DOMAIN RESOURCE_LOCKS \cup {call'.resource}
            /\ \A r \in DOMAIN RESOURCE_LOCKS \ {call'.resource} :
                  RESOURCE_LOCKS'[r] = RESOURCE_LOCKS[r]
            /\ SIGNAL_STORE' = SIGNAL_STORE
            /\ GPS_STORE' = GPS_STORE]_vars

\* a second resource was arbitrated while the first one's lock is held by
\* another vehicle
C16_Witness ==
    /\ call.op = "resolve"
    /\ ~call.raised
    /\ call.resource = SecondResource
    /\ DOMAIN RESOURCE_LOCKS = {DefaultSignal, SecondResource}
    /\ RESOURCE_LOCKS[DefaultSignal] # None
    /\ RESOURCE_LOCKS[SecondResource] # None
    /\ RESOURCE_LOCKS[SecondResource] # RESOURCE_LOCKS[DefaultSignal]

\* ------------------------------------------------------------------------
\* Properties of the engine behind its handlers (Spec)
\* ------------------------------------------------------------------------
\* the handlers that run get_corridor_ahead (activate_corridor)
CorridorOps ==
    {"update_corridor", "create_trip", "update_location", "system_status",
     "get_corridor_status", "get_trip_route_signals"}

\* the state of a signal before a call: a signal is created NORMAL on its
\* first reference
StateBefore(s) ==
    IF s \in DOMAIN SIGNAL_STORE THEN SIGNAL_STORE[s].current_state ELSE NORMAL

\* the green time of a signal has run out
GreenExpired(s) ==
    /\ SIGNAL_STORE[s].current_state = GREEN_FOR_AMBULANCE
    /\ SIGNAL_STORE[s].green_start_time # NoneTime
    /\ now - SIGNAL_STORE[s].green_start_time > 60

\* C3: a CRITICAL activate_corridor call whose filtered corridor has three
\* signals, all NORMAL, moves at most the first of them out of NORMAL.
C3_CriticalOneAtATime ==
    [][(/\ call'.op = "update_corridor"
        /\ call'.n = call.n + 1
        /\ call'.sev = SevCRITICAL
        /\ Len(call'.corridor) = 3
        /\ \A i \in 1..3 : StateBefore(call'.corridor[i]) = NORMAL)
         => \A i \in 2..3 :
               SIGNAL_STORE'[call'.corridor[i]].current_state = NORMAL]_vars

\* C4: a GREEN_FOR_AMBULANCE signal whose green time has run out is moved to
\* RESET by the next activate_corridor call whose corridor contains it; the
\* passing of time alone does not move it.
C4_LazyExpiry ==
    [][\A s \in DOMAIN SIGNAL_STORE :
          GreenExpired(s)
            => /\ (/\ call'.n = call.n + 1
                   /\ call'.op = "update_corridor"
                   /\ \E i \in 1..Len(call'.corridor) : call'.corridor[i] = s)
                  => SIGNAL_STORE'[s].current_state = RESET
               /\ (call'.n = call.n + 1 /\ call'.op = "tick")
                  => SIGNAL_STORE'[s] = SIGNAL_STORE[s]]_vars

\* C5: activate_corridor leaves a signal that is in PREPARE_PRIORITY or
\* GREEN_FOR_AMBULANCE as it is (state, owner, green_started_at, history),
\* whichever vehicle calls, at whatever distance and severity.
C5_ActiveSignalsSkipped ==
    [][(call'.n = call.n + 1 /\ call'.op \in CorridorOps)
         => \A s \in DOMAIN SIGNAL_STORE :
               SIGNAL_STORE[s].current_state \in {PREPARE_PRIORITY, GREEN_FOR_AMBULANCE}
                 => SIGNAL_STORE'[s] = SIGNAL_STORE[s]]_vars

\* a corridor call of another vehicle skipped a signal that is owned, and drove
\* a transition on a later one
C5_Witness ==
    /\ call.op = "update_corridor"
    /\ ~call.raised
    /\ call.driven # <<>>
    /\ \E s \in call.skipped :
          /\ SIGNAL_STORE[s].current_owner # None
          /\ SIGNAL_STORE[s].current_owner # call.amb

EngineOps == {"update_corridor", "authorized_corridor"}

\* the signals are as before the call; a signal the call referenced for the
\* first time exists now, untouched
SignalsAsBefore ==
    \A s \in DOMAIN SIGNAL_STORE' :
       SIGNAL_STORE'[s] = (IF s \in DOMAIN SIGNAL_STORE THEN SIGNAL_STORE[s]
                           ELSE NewFSM)

\* C15: an engine call either completes or fails and leaves every signal
\* state, owner and history, every lock entry and the decision log as they
\* were before the call.
C15_FailsWithoutEffect ==
    [][(call'.n = call.n + 1 /\ call'.op \in EngineOps /\ call'.raised)
         => /\ SignalsAsBefore
            /\ RESOURCE_LOCKS' = RESOURCE_LOCKS
            /\ DECISION_LOG' = DECISION_LOG]_vars

\* what resolve_conflict decides for the caller on signal sig when it is
\* consulted in the state of the call: True, False, or None without winner
Consulted(sig, ambulance_id, severity) ==
    LET r == resolve_conflict(RESOURCE_LOCKS, DECISION_LOG, GPS_STORE, sig,
                              GpsKeys(GPS_STORE),
                              AuthorizedSeverityMap(GPS_STORE, ambulance_id, severity),
                              now)
    IN  IF r.winner = None THEN None
        ELSE IF r.winner = ambulance_id THEN PyTrue ELSE PyFalse

\* the signals on which the call's transition was taken, so that the
\* arbitration outcome it was given is on record in the history
Recorded ==
    {sig \in {call'.driven[i] : i \in 1..Len(call'.driven)} :
        Len(SIGNAL_STORE'[sig].history)
          > (IF sig \in DOMAIN SIGNAL_STORE THEN Len(SIGNAL_STORE[sig].history) ELSE 0)}

\* C20: in activate_corridor every corridor signal that is not skipped is
\* arbitrated by the resolver before its transition is called, and the
\* outcome given to the transition is the result of that consultation in
\* the same call, not a lock value that an earlier arbitration left behind
C20_ResolverConsultedFirst ==
    [][(call'.n = call.n + 1 /\ call'.op = "update_corridor" /\ ~call'.raised
           /\ call'.sev \in DOMAIN SEVERITY_MAP)
         => \A sig \in Recorded :
               LET entry == SIGNAL_STORE'[sig].history[Len(SIGNAL_STORE'[sig].history)]
               IN  entry.reason.conflict_winner
                     = Consulted(sig, call'.amb, call'.sev)]_vars

\* ------------------------------------------------------------------------
\* Properties of the route selection (SpecRoute)
\* ------------------------------------------------------------------------
RouteOf(ambulance_id) == ROUTES[AMBULANCE_REGISTRY[ambulance_id]]

\* the vehicle is tracked and its route has a signal with a known position
HasRouteData(gps, ambulance_id) ==
    /\ InGps(gps, ambulance_id)
    /\ ambulance_id \in DOMAIN AMBULANCE_REGISTRY
    /\ AMBULANCE_REGISTRY[ambulance_id] \in DOMAIN ROUTES
    /\ \E i \in 1..Len(RouteOf(ambulance_id)) :
          RouteOf(ambulance_id)[i] \in DOMAIN SIGNAL_POSITIONS

\* the index of the route's signal closest to the vehicle, the first one of
\* several equally close
ClosestIndex(gps, ambulance_id) ==
    LET route == RouteOf(ambulance_id)
        known == {i \in 1..Len(route) : route[i] \in DOMAIN SIGNAL_POSITIONS}
        d(i) == FlatDistance(GpsOf(gps, ambulance_id).pos, SIGNAL_POSITIONS[route[i]])
    IN  CHOOSE i \in known : \A j \in known : d(i) < d(j) \/ (d(i) = d(j) /\ i <= j)

\* where the selection starts: the closest signal, or the one after it when
\* the closest is less than 0.3 km away
StartIndex(gps, ambulance_id) ==
    LET c == ClosestIndex(gps, ambulance_id)
        dist == FlatDistance(GpsOf(gps, ambulance_id).pos,
                             SIGNAL_POSITIONS[RouteOf(ambulance_id)[c]])
    IN  IF dist < PASSED_CLOSEST_KM THEN c + 1 ELSE c

\* C17: get_route_ahead_signals returns the contiguous slice of the
\* vehicle's route that starts at the index of the closest signal, or at the
\* next index when that signal is less than 0.3 km away; it keeps the route
\* order, has at most max_ahead signals (all that the route has left, up to
\* max_ahead) and does not wrap past the end of the route
C17_RouteAheadSlice ==
    [][(call'.n = call.n + 1 /\ call'.op = "route_ahead"
           /\ HasRouteData(GPS_STORE, call'.amb))
         => LET route == RouteOf(call'.amb)
                start == StartIndex(GPS_STORE, call'.amb)
                left == IF start > Len(route) THEN 0 ELSE Len(route) - start + 1
                result == call'.corridor
            IN  /\ Len(result) <= call'.max_ahead
                /\ Len(result) = (IF left < call'.max_ahead THEN left
                                  ELSE call'.max_ahead)
                /\ \A j \in 1..Len(result) :
                      /\ start + j - 1 <= Len(route)
                      /\ result[j] = route[start + j - 1]]_vars

\* the vehicle of the five-signal route is 0.2 km from the signal at index
\* 2 (counted from 0) and the selection starts at index 3
C17_Witness ==
    /\ call.op = "route_ahead"
    /\ call.amb = "AMB-3"
    /\ call.max_ahead = 3
    /\ InGps(GPS_STORE, "AMB-3")
    /\ GpsOf(GPS_STORE, "AMB-3").pos = 118
    /\ call.corridor = <<"SIGNAL-104", "SIGNAL-105">>

\* activate_corridor has nothing to select from: the vehicle has no position
\* sample, or no assigned route, or a route of unknown signal ids only
NoCorridorData(gps, ambulance_id) ==
    \/ ~InGps(gps, ambulance_id)
    \/ ambulance_id \notin DOMAIN AMBULANCE_REGISTRY
    \/ AMBULANCE_REGISTRY[ambulance_id] \notin DOMAIN ROUTES
    \/ \A i \in 1..Len(RouteOf(ambulance_id)) :
          RouteOf(ambulance_id)[i] \notin DOMAIN SIGNAL_POSITIONS

\* C18: activate_corridor for a vehicle without position sample, without
\* assigned route, or with a route that names only unknown signal ids
\* returns an empty corridor, raises no error (whatever the severity string)
\* and changes no signal state, no lock and no decision log entry
C18_EmptyCorridorNoEffect ==
    [][(call'.n = call.n + 1 /\ call'.op = "update_corridor"
           /\ NoCorridorData(GPS_STORE, call'.amb))
         => /\ call'.corridor = <<>>
            /\ ~call'.raised
            /\ SIGNAL_STORE' = SIGNAL_STORE
            /\ RESOURCE_LOCKS' = RESOURCE_LOCKS
            /\ DECISION_LOG' = DECISION_LOG]_vars

\* an unregistered vehicle that stands 0.1 km before SIGNAL-001, with
\* signals in priority states, asked for a corridor
C18_Witness ==
    /\ call.op = "update_corridor"
    /\ call.amb = "AMB-6"
    /\ InGps(GPS_STORE, "AMB-6")
    /\ GpsOf(GPS_STORE, "AMB-6").pos = 1
    /\ SIGNAL_STORE # <<>>
    /\ call.corridor = <<>>
    /\ ~call.raised

\* ------------------------------------------------------------------------
\* Position updates of two vehicles (Spec)
\* ------------------------------------------------------------------------
\* the signals that the last call moved from NORMAL to PREPARE_PRIORITY for
\* its vehicle
PreparedByCall ==
    {sig \in {call.driven[i] : i \in 1..Len(call.driven)} :
        /\ SIGNAL_STORE[sig].current_state = PREPARE_PRIORITY
        /\ SIGNAL_STORE[sig].current_owner = call.amb}

\* C21: when the position updates of two vehicles on a trip that approach
\* the same NORMAL signal are handled concurrently, the planner's check and
\* transition for one vehicle are not interleaved with the other's: the
\* update handled first makes its vehicle the owner, and the other update
\* leaves the signal as it is, so exactly one vehicle becomes owner
C21_UpdatesSerialized ==
    [][(/\ call'.n = call.n + 1
        /\ call.op = "update_location"
        /\ call'.op = "update_location"
        /\ call'.amb # call.amb
        /\ TRIPS[call'.amb] # None)
         => \A sig \in PreparedByCall :
               /\ SIGNAL_STORE'[sig] = SIGNAL_STORE[sig]
               /\ SIGNAL_STORE'[sig].current_owner = call.amb
               /\ \A i \in 1..Len(call'.driven) : call'.driven[i] # sig]_vars

\* both vehicles are on a trip and reported the same position 0.3 km before
\* SIGNAL-001; AMB-1 was handled first and owns the signal, the update of
\* AMB-2 skipped it
C21_Witness ==
    /\ call.op = "update_location"
    /\ call.amb = "AMB-2"
    /\ call.n = 2
    /\ TRIPS["AMB-1"] # None
    /\ TRIPS["AMB-2"] # None
    /\ InGps(GPS_STORE, "AMB-1")
    /\ GpsOf(GPS_STORE, "AMB-1").pos = GpsOf(GPS_STORE, "AMB-2").pos
    /\ DefaultSignal \in call.skipped
    /\ SIGNAL_STORE[DefaultSignal].current_state = PREPARE_PRIORITY
    /\ SIGNAL_STORE[DefaultSignal].current_owner = "AMB-1"
    /\ Len(SIGNAL_STORE[DefaultSignal].history) = 1

\* ------------------------------------------------------------------------
\* Ownership of one signal (SpecFSM)
\* ------------------------------------------------------------------------
\* C22: while a signal is in PREPARE_PRIORITY or GREEN_FOR_AMBULANCE with
\* owner A, a transition call made for another vehicle B never makes B the
\* owner and never moves the signal to RESET
C22_OwnerKeepsSignal ==
    [][(/\ call'.n = call.n + 1
        /\ call'.op = "transition"
        /\ ~call'.raised
        /\ TheSignal.current_state \in PrioritySignalStates
        /\ TheSignal.current_owner # None
        /\ call'.amb # TheSignal.current_owner)
         => /\ TheSignal'.current_owner # call'.amb
            /\ TheSignal'.current_state # RESET]_vars

\* ------------------------------------------------------------------------
\* A vehicle that keeps approaching and then leaves (Spec)
\* ------------------------------------------------------------------------
\* the distance between the position the call reported and the signal
NewDistance(sig) ==
    FlatDistance(GpsOf(GPS_STORE', call'.amb).pos, SIGNAL_POSITIONS[sig])

InCorridor(sig) == \E i \in 1..Len(call'.corridor) : call'.corridor[i] = sig

\* C23: if a vehicle owns a signal in PREPARE_PRIORITY and then reports a
\* position less than 0.2 km from that signal while the signal is in its
\* corridor, the corridor activation of that position update moves the
\* signal to GREEN_FOR_AMBULANCE
C23_OwnerGetsGreen ==
    [][(call'.n = call.n + 1 /\ call'.op = "update_location" /\ ~call'.raised)
         => \A sig \in DOMAIN SIGNAL_STORE :
               (/\ SIGNAL_STORE[sig].current_state = PREPARE_PRIORITY
                /\ SIGNAL_STORE[sig].current_owner = call'.amb
                /\ NewDistance(sig) < GREEN_KM
                /\ InCorridor(sig))
                  => SIGNAL_STORE'[sig].current_state = GREEN_FOR_AMBULANCE]_vars

\* ------------------------------------------------------------------------
\* Signals left behind by a vehicle that keeps driving (SpecDrive)
\* ------------------------------------------------------------------------
RouteSignals == {"SIGNAL-001", "SIGNAL-002", "SIGNAL-003"}

\* the signal is held for the vehicle
HeldForVehicle(sig) ==
    /\ sig \in DOMAIN SIGNAL_STORE
    /\ SIGNAL_STORE[sig].current_state \in PrioritySignalStates
    /\ SIGNAL_STORE[sig].current_owner = DriveVehicle

\* the vehicle is more than 1.0 km away from the signal
MovedAway(sig) ==
    FlatDistance(GpsOf(GPS_STORE, DriveVehicle).pos, SIGNAL_POSITIONS[sig]) > PASSED_KM

BackToNormal(sig) ==
    sig \in DOMAIN SIGNAL_STORE /\ SIGNAL_STORE[sig].current_state = NORMAL

\* C24: a signal that the corridor activation moved into PREPARE_PRIORITY
\* returns to NORMAL if its owner keeps sending position updates and moves
\* more than 1.0 km away from it, the trip still running
C24_HeldSignalsReturn ==
    \A sig \in RouteSignals :
        (<>[]MovedAway(sig)) => [](HeldForVehicle(sig) => <>BackToNormal(sig))

\* ------------------------------------------------------------------------
\* The passed signal and the corridor (SpecRoute)
\* ------------------------------------------------------------------------
\* the route signal closest to the vehicle of the call
ClosestSignal == RouteOf(call'.amb)[ClosestIndex(GPS_STORE, call'.amb)]

\* C25: if the vehicle is less than 0.3 km from the route signal closest to
\* it, that signal is not part of the corridor that activate_corridor returns
\* and the call does not drive it through a transition, also when it is the
\* last signal of the route
C25_PassedSignalLeftOut ==
    [][(/\ call'.n = call.n + 1
        /\ call'.op = "update_corridor"
        /\ ~call'.raised
        /\ HasRouteData(GPS_STORE, call'.amb)
        /\ FlatDistance(GpsOf(GPS_STORE, call'.amb).pos,
                        SIGNAL_POSITIONS[ClosestSignal]) < PASSED_CLOSEST_KM)
         => /\ \A i \in 1..Len(call'.corridor) : call'.corridor[i] # ClosestSignal
            /\ \A i \in 1..Len(call'.driven) : call'.driven[i] # ClosestSignal]_vars

\* ------------------------------------------------------------------------
\* Locks and activation (Spec)
\* ------------------------------------------------------------------------
\* the calls that run activate_corridor for one vehicle
ActivateOps ==
    {"update_corridor", "create_trip", "update_location", "get_corridor_status",
     "get_trip_route_signals"}

\* the signals that the call moved from NORMAL to PREPARE_PRIORITY
Activated ==
    {sig \in DOMAIN SIGNAL_STORE' :
        /\ StateBefore(sig) = NORMAL
        /\ SIGNAL_STORE'[sig].current_state = PREPARE_PRIORITY}

\* C26: activate_corridor for a vehicle never moves a signal out of NORMAL
\* while the lock of that signal names a different vehicle: when a signal
\* enters PREPARE_PRIORITY its lock is empty or names the new owner
C26_NoActivationAgainstLock ==
    [][(call'.n = call.n + 1 /\ call'.op \in ActivateOps)
         => \A sig \in Activated :
               /\ SIGNAL_STORE'[sig].current_owner = call'.amb
               /\ LockOf(RESOURCE_LOCKS, sig) \in {None, call'.amb}]_vars

\* AMB-1 stands 0.1 km before SIGNAL-003, which is NORMAL and locked for
\* AMB-2: its activation drove the signal and the signal stayed NORMAL
C26_Witness ==
    /\ call.op = "update_corridor"
    /\ call.amb = "AMB-1"
    /\ call.sev = SevHIGH
    /\ InGps(GPS_STORE, "AMB-1")
    /\ GpsOf(GPS_STORE, "AMB-1").pos = 13
    /\ \E i \in 1..Len(call.driven) : call.driven[i] = "SIGNAL-003"
    /\ LockOf(RESOURCE_LOCKS, "SIGNAL-003") = "AMB-2"
    /\ SIGNAL_STORE["SIGNAL-003"].current_state = NORMAL
    /\ SIGNAL_STORE["SIGNAL-003"].history[Len(SIGNAL_STORE["SIGNAL-003"].history)]
         .reason.reason = "Suppressed by conflict resolution (lost arbitration)"

StatusOps == {"get_corridor_status", "get_trip_route_signals", "system_status"}

\* C28: a status query (corridor status, trip route-signals, trip details,
\* system status) changes no signal, no lock and no entry of the decision log
C28_StatusQueriesReadOnly ==
    [][(call'.n = call.n + 1 /\ call'.op \in StatusOps)
         => /\ SIGNAL_STORE' = SIGNAL_STORE
            /\ RESOURCE_LOCKS' = RESOURCE_LOCKS
            /\ DECISION_LOG' = DECISION_LOG]_vars

\* ------------------------------------------------------------------------
\* One classification of severity strings (SpecEngine)
\* ------------------------------------------------------------------------
DrivenByCall == {call'.driven[i] : i \in 1..Len(call'.driven)}

\* the chain-reaction rule of the planner was applied by the call: a signal
\* after the first was driven only behind a signal that is preparing or green
ChainRuleApplied ==
    \A i \in 2..Len(call'.corridor) :
        call'.corridor[i] \in DrivenByCall
          => SIGNAL_STORE'[call'.corridor[i - 1]].current_state
               \in {PREPARE_PRIORITY, GREEN_FOR_AMBULANCE}

\* C29: planner, signal and resolver classify a severity string alike: a
\* string the signal's transition accepts is accepted by the resolver, and a
\* string the signal normalises to CRITICAL falls under the planner's
\* chain-reaction rule
C29_SeverityClassifiedAlike ==
    [][(call'.n = call.n + 1 /\ call'.op \in EngineOps
           /\ ~SeverityRaises(call'.sev))
         => /\ ~call'.raised
            /\ normalize_severity(call'.sev) = SevCRITICAL => ChainRuleApplied]_vars

\* ------------------------------------------------------------------------
\* The PREPARE_PRIORITY row of the transition table (SpecFSM)
\* ------------------------------------------------------------------------
\* C30: on a signal in PREPARE_PRIORITY an accepted transition call under
\* 0.2 km gives GREEN_FOR_AMBULANCE to the caller and sets green_start_time,
\* one over 1.0 km gives RESET without owner, one in between leaves state
\* and owner alone, whatever the severity and the arbitration outcome; no
\* step enters GREEN_FOR_AMBULANCE from another state than PREPARE_PRIORITY
C30_PrepareBranch ==
    [][/\ (/\ call'.n = call.n + 1
           /\ call'.op = "transition"
           /\ ~call'.raised
           /\ TheSignal.current_state = PREPARE_PRIORITY)
          => /\ call'.dist < GREEN_KM
                => /\ TheSignal'.current_state = GREEN_FOR_AMBULANCE
                   /\ TheSignal'.current_owner = call'.amb
                   /\ TheSignal'.green_start_time = now
             /\ call'.dist > PASSED_KM
                => /\ TheSignal'.current_state = RESET
                   /\ TheSignal'.current_owner = None
             /\ (call'.dist >= GREEN_KM /\ call'.dist <= PASSED_KM)
                => /\ TheSignal'.current_state = PREPARE_PRIORITY
                   /\ TheSignal'.current_owner = TheSignal.current_owner
       /\ (/\ TheSignal'.current_state = GREEN_FOR_AMBULANCE
           /\ TheSignal.current_state # GREEN_FOR_AMBULANCE)
          => TheSignal.current_state = PREPARE_PRIORITY]_vars

\* a LOW call that lost its arbitration, made for another vehicle than the
\* owner under 0.2 km, was given the green of a preparing signal
C30_Witness ==
    /\ call.op = "transition"
    /\ ~call.raised
    /\ call.pre.current_state = PREPARE_PRIORITY
    /\ call.pre.current_owner # call.amb
    /\ call.dist < GREEN_KM
    /\ call.sev = SevLOW
    /\ call.cw = PyFalse
    /\ TheSignal.current_state = GREEN_FOR_AMBULANCE
    /\ TheSignal.current_owner = call.amb
    /\ TheSignal.green_start_time = now

====
